---------------------------- MODULE Spec2Model ----------------------------
(***************************************************************************)
(* Model of the allocation and report logic of stock-portfolio-m1:         *)
(*   NaturalLanguageSummaryAgent.analyze and the functions it calls, and   *)
(*   ReportGenerationAgent.generateReport.                                 *)
(*                                                                         *)
(* Numbers.  The program computes with IEEE doubles.  The model computes   *)
(* with exact rationals [n |-> numerator, d |-> denominator], d > 0, in    *)
(* lowest terms, so that equal numbers are equal records.  Floating-point  *)
(* rounding (relative error about 1e-16) is therefore not modelled; every  *)
(* tolerance the program uses (0.001) is many orders of magnitude larger.  *)
(*                                                                         *)
(* Optional values.  A value that may be undefined is a sequence of length *)
(* at most one: << >> is undefined, << v >> is the value v.                *)
(***************************************************************************)
EXTENDS Integers, Sequences, FiniteSets, TLC

(***************************************************************************)
(* Bounds of the model                                                     *)
(***************************************************************************)
\* longest holdings list of an input
MaxHoldings == 2
\* longest rotationSignals list of an input
MaxSignals == 1
\* largest bucket total, in tenths, of the plans normalizeAllocations is tried on
MaxTenths == 5
\* number of successive calls of normalizeAllocations on one plan
MaxNormalizeCalls == 2
\* recommendations have the convictions 3, 6, ..., 3 * MaxConvictionLevel
MaxConvictionLevel == 2
\* longest rotationSignals list the strategy methods are tried on
MaxStrategySignals == 2
\* longest risks list of a macro analysis
MaxMacroRisks == 3
\* number of times the search form is submitted
MaxSearches == 2

(***************************************************************************)
(* Exact rational arithmetic (the program's number arithmetic)             *)
(***************************************************************************)
Abs(x) == IF x < 0 THEN -x ELSE x

RECURSIVE GCD(_, _)
GCD(a, b) == IF b = 0 THEN a ELSE GCD(b, a % b)

\* the rational n/d in lowest terms with a positive denominator (d # 0)
Rat(n, d) ==
    LET g == GCD(Abs(n), Abs(d))
        s == IF d < 0 THEN -1 ELSE 1
    IN  [n |-> s * (n \div g), d |-> Abs(d) \div g]

Zero == Rat(0, 1)
One == Rat(1, 1)

RAdd(a, b) == Rat(a.n * b.d + b.n * a.d, a.d * b.d)
RSub(a, b) == Rat(a.n * b.d - b.n * a.d, a.d * b.d)
RMul(a, b) == Rat(a.n * b.n, a.d * b.d)
\* a / b for b # 0
RDiv(a, b) == Rat(a.n * b.d, a.d * b.n)
RLess(a, b) == a.n * b.d < b.n * a.d
RLeq(a, b) == a.n * b.d <= b.n * a.d
RAbs(a) == [n |-> Abs(a.n), d |-> a.d]
\* Math.min
RMin(a, b) == IF RLess(b, a) THEN b ELSE a

(***************************************************************************)
(* Optional values and the `x || default` idiom                            *)
(***************************************************************************)
Undefined == << >>
Some(v) == << v >>
IsDefined(x) == Len(x) > 0

\* obj?.name : undefined when obj is undefined, else the field (itself optional)
OptField(obj, name) == IF IsDefined(obj) THEN obj[1][name] ELSE Undefined

\* x || dflt for a number x: undefined and 0 are falsy
OrDefault(x, dflt) == IF IsDefined(x) /\ x[1] # Zero THEN x[1] ELSE dflt

(***************************************************************************)
(* normalizeAllocations: scale the three bucket totals to sum to 1 when    *)
(* the sum is off by more than 0.001                                       *)
(***************************************************************************)
totalAllocation(allocations) ==
    RAdd(RAdd(allocations.incomePie.total, allocations.shortTermTreasury.total),
         allocations.treasuryETF.total)

needsNormalization(allocations) ==
    RLess(Rat(1, 1000), RAbs(RSub(totalAllocation(allocations), One)))

\* fault variant of normalizeAllocations: the normalization is left out
normalizeAllocationsOmitted(allocations) == allocations

\* fault variant of normalizeAllocations: the treasury ETF bucket is not scaled
normalizeAllocationsTwoBuckets(allocations) ==
    IF needsNormalization(allocations)
    THEN LET normalizationFactor == RDiv(One, totalAllocation(allocations))
         IN  [allocations EXCEPT
                !.incomePie.total = RMul(@, normalizationFactor),
                !.shortTermTreasury.total = RMul(@, normalizationFactor)]
    ELSE allocations

normalizeAllocations(allocations) ==
    IF needsNormalization(allocations)
    THEN LET normalizationFactor == RDiv(One, totalAllocation(allocations))
         IN  [allocations EXCEPT
                !.incomePie.total = RMul(@, normalizationFactor),
                !.shortTermTreasury.total = RMul(@, normalizationFactor),
                !.treasuryETF.total = RMul(@, normalizationFactor)]
    ELSE allocations

(***************************************************************************)
(* calculateAllocations                                                    *)
(***************************************************************************)
optionETFSymbols == {"FEPI", "QQQY", "SDTY"}
shortTermSymbols == {"SHY"}
treasurySymbols == {"EDV"}

\* the forEach of lines 109-117: the sum of the allocations of the holdings
\* whose symbol is in `symbols`
RECURSIVE currentAllocation(_, _)
currentAllocation(holdings, symbols) ==
    IF holdings = << >> THEN Zero
    ELSE LET rest == currentAllocation(Tail(holdings), symbols)
         IN  IF Head(holdings).symbol \in symbols
             THEN RAdd(Head(holdings).allocation, rest)
             ELSE rest

\* an allocation plan; note is "" when the plan carries none
Plan(income, fepi, sdty, qqqy, short, treasury, note) ==
    [incomePie |-> [total |-> income, FEPI |-> fepi, SDTY |-> sdty, QQQY |-> qqqy],
     shortTermTreasury |-> [total |-> short, SHY |-> One],
     treasuryETF |-> [total |-> treasury, EDV |-> One],
     note |-> note]

\* fault variant of resolveLimits: the defaults of the two caps exchanged
resolveLimitsSwappedDefaults(positionLimits) ==
    [maxSingleOptionETF |->
        OrDefault(OptField(positionLimits, "maxSingleOptionETF"), Rat(25, 100)),
     maxCombinedOptionETFs |->
        OrDefault(OptField(positionLimits, "maxCombinedOptionETFs"), Rat(5, 100)),
     idealIncomePieAllocation |->
        OrDefault(OptField(positionLimits, "idealIncomePieAllocation"), Rat(60, 100))]

\* lines 91-93 and 233-234: each limit, or its default when it is falsy
resolveLimits(positionLimits) ==
    [maxSingleOptionETF |->
        OrDefault(OptField(positionLimits, "maxSingleOptionETF"), Rat(5, 100)),
     maxCombinedOptionETFs |->
        OrDefault(OptField(positionLimits, "maxCombinedOptionETFs"), Rat(25, 100)),
     idealIncomePieAllocation |->
        OrDefault(OptField(positionLimits, "idealIncomePieAllocation"), Rat(60, 100))]

\* lines 95-140; lim holds the three constants of lines 91-93
baseAllocations(actualAllocations, lim) ==
    LET holdings == actualAllocations.holdings
        currentOptionETFAllocation == currentAllocation(holdings, optionETFSymbols)
        currentShortTermAllocation == currentAllocation(holdings, shortTermSymbols)
        currentTreasuryAllocation == currentAllocation(holdings, treasurySymbols)
    IN  normalizeAllocations(
          Plan(IF RLess(Zero, currentOptionETFAllocation)
                  THEN currentOptionETFAllocation
                  ELSE RMin(lim.idealIncomePieAllocation, lim.maxCombinedOptionETFs),
               Rat(35, 100), Rat(35, 100), Rat(30, 100),
               IF RLess(Zero, currentShortTermAllocation)
                  THEN currentShortTermAllocation ELSE Rat(2, 10),
               IF RLess(Zero, currentTreasuryAllocation)
                  THEN currentTreasuryAllocation ELSE Rat(2, 10),
               ""))

\* fault variant of highVixAllocations: the income pie of the mid-VIX plan
highVixAllocationsAboveLimit(lim) ==
    LET income == RAdd(lim.maxCombinedOptionETFs, Rat(5, 100))
        half == RMul(RSub(One, lim.maxCombinedOptionETFs), Rat(5, 10))
    IN  normalizeAllocations(
          Plan(income, Rat(40, 100), Rat(35, 100), Rat(25, 100), half, half, ""))

highVixAllocations(lim) ==
    LET half == RMul(RSub(One, lim.maxCombinedOptionETFs), Rat(5, 10))
    IN  normalizeAllocations(
          Plan(lim.maxCombinedOptionETFs, Rat(40, 100), Rat(35, 100), Rat(25, 100),
               half, half, ""))

midVixAllocations(lim) ==
    LET income == RAdd(lim.maxCombinedOptionETFs, Rat(5, 100))
        half == RMul(RSub(One, income), Rat(5, 10))
    IN  normalizeAllocations(
          Plan(income, Rat(40, 100), Rat(35, 100), Rat(25, 100), half, half, ""))

\* lines 186-205: the plan returned when the combined limit is exceeded
adjustedAllocationsPreset(lim) ==
    LET half == RMul(RSub(One, lim.maxCombinedOptionETFs), Rat(5, 10))
    IN  normalizeAllocations(
          Plan(lim.maxCombinedOptionETFs, Rat(35, 100), Rat(35, 100), Rat(30, 100),
               half, half, ""))

\* fault variant of selectedPreset: the mid-VIX plan from the monitor
\* threshold 20 on
selectedPresetFrom20(vixLevel, actualAllocations) ==
    IF vixLevel > 30 THEN "highVix"
    ELSE IF vixLevel > 20 THEN "midVix"
    ELSE IF actualAllocations.limitExceeded.combinedOptionETFs THEN "adjusted"
    ELSE "base"

\* which of the four plans calculateAllocations returns (its if-chain)
selectedPreset(vixLevel, actualAllocations) ==
    IF vixLevel > 30 THEN "highVix"
    ELSE IF vixLevel > 25 THEN "midVix"
    ELSE IF actualAllocations.limitExceeded.combinedOptionETFs THEN "adjusted"
    ELSE "base"

calculateAllocationsWith(vixLevel, actualAllocations, lim) ==
    LET preset == selectedPreset(vixLevel, actualAllocations)
    IN  IF preset = "highVix" THEN highVixAllocations(lim)
        ELSE IF preset = "midVix" THEN midVixAllocations(lim)
        ELSE IF preset = "adjusted" THEN adjustedAllocationsPreset(lim)
        ELSE baseAllocations(actualAllocations, lim)

calculateAllocations(vixLevel, actualAllocations, positionLimits) ==
    calculateAllocationsWith(vixLevel, actualAllocations, resolveLimits(positionLimits))

(***************************************************************************)
(* generateAdjustedAllocations                                             *)
(***************************************************************************)
LimitsNote == "Adjusted to respect position limits: 5% max per option ETF, 25% max combined"

exceedsIndividualLimits(allocations, lim) ==
    LET fepiAllocation == RMul(allocations.incomePie.total, allocations.incomePie.FEPI)
        sdtyAllocation == RMul(allocations.incomePie.total, allocations.incomePie.SDTY)
        qqqyAllocation == RMul(allocations.incomePie.total, allocations.incomePie.QQQY)
    IN  \/ RLess(lim.maxSingleOptionETF, fepiAllocation)
        \/ RLess(lim.maxSingleOptionETF, sdtyAllocation)
        \/ RLess(lim.maxSingleOptionETF, qqqyAllocation)

\* fault variant of adjustedAllocationsOf: the sub-weights of the input plan
\* are kept
adjustedAllocationsKeepingWeights(allocations, lim) ==
    Plan(RMin(allocations.incomePie.total, lim.maxCombinedOptionETFs),
         allocations.incomePie.FEPI, allocations.incomePie.SDTY,
         allocations.incomePie.QQQY,
         allocations.shortTermTreasury.total,
         allocations.treasuryETF.total,
         LimitsNote)

\* lines 252-269: the plan built when a limit is exceeded, before normalization
adjustedAllocationsOf(allocations, lim) ==
    Plan(RMin(allocations.incomePie.total, lim.maxCombinedOptionETFs),
         Rat(33, 100), Rat(33, 100), Rat(34, 100),
         allocations.shortTermTreasury.total,
         allocations.treasuryETF.total,
         LimitsNote)

generateAdjustedAllocationsWith(allocations, lim) ==
    IF /\ ~exceedsIndividualLimits(allocations, lim)
       /\ RLeq(allocations.incomePie.total, lim.maxCombinedOptionETFs)
    THEN allocations
    ELSE normalizeAllocations(adjustedAllocationsOf(allocations, lim))

generateAdjustedAllocations(allocations, positionLimits) ==
    generateAdjustedAllocationsWith(allocations, resolveLimits(positionLimits))

(***************************************************************************)
(* generateStrategySummary: the three percentages the summary displays     *)
(***************************************************************************)
\* Math.round of the rational n/d, d > 0: floor(n/d + 1/2)
Round(r) == (2 * r.n + r.d) \div (2 * r.d)

\* the percentage Math.round(total * 100)
roundedPercent(total) == Round(RMul(total, Rat(100, 1)))

\* fault variant of generateStrategySummary: the Treasury ETF percentage
\* rounded from its own total like the other two
generateStrategySummaryRoundingEach(allocations) ==
    [incomePiePercent |-> roundedPercent(allocations.incomePie.total),
     shortTermTreasuryPercent |-> roundedPercent(allocations.shortTermTreasury.total),
     treasuryETFPercent |-> roundedPercent(allocations.treasuryETF.total)]

\* lines 288-293 and 302-304: the numbers of the three allocation lines
generateStrategySummary(allocations) ==
    LET incomePiePercent == roundedPercent(allocations.incomePie.total)
        shortTermTreasuryPercent == roundedPercent(allocations.shortTermTreasury.total)
    IN  [incomePiePercent |-> incomePiePercent,
         shortTermTreasuryPercent |-> shortTermTreasuryPercent,
         treasuryETFPercent |-> 100 - incomePiePercent - shortTermTreasuryPercent]

(***************************************************************************)
(* generateStrategyRecommendations                                         *)
(***************************************************************************)
\* the recommendation pushed for one rotation signal (lines 441-451)
signalRecommendation(signal) ==
    [action |-> IF signal.type = "INCREASE" THEN "BUY"
                ELSE IF signal.type = "REDUCE" THEN "SELL" ELSE "HOLD",
     symbol |-> signal.symbol,
     timeframe |-> IF signal.urgency = "HIGH" THEN "short-term" ELSE "medium-term",
     conviction |-> IF signal.urgency = "HIGH" THEN 8
                    ELSE IF signal.urgency = "MEDIUM" THEN 6 ELSE 4]

\* the recommendation pushed when there is no rotation signal (lines 455-485)
defaultRecommendation(vixLevel, sharpeRatio) ==
    IF vixLevel > 25
    THEN [action |-> "SELL", symbol |-> "OPTION_ETFS",
          timeframe |-> "short-term", conviction |-> 7]
    ELSE IF RLess(sharpeRatio, Rat(-1, 1))
    THEN [action |-> "SELL", symbol |-> "OPTION_ETFS",
          timeframe |-> "medium-term", conviction |-> 6]
    ELSE [action |-> "HOLD", symbol |-> "PORTFOLIO",
          timeframe |-> "medium-term", conviction |-> 5]

\* fault variant of generateStrategyRecommendations: only the first rotation
\* signal is mapped
generateStrategyRecommendationsFirstSignal(state) ==
    IF IsDefined(state.rotationSignals) /\ Len(state.rotationSignals[1]) > 0
    THEN <<signalRecommendation(state.rotationSignals[1][1])>>
    ELSE <<defaultRecommendation(state.marketCondition.vix, state.metrics.sharpeRatio)>>

\* lines 432-489; `rotationSignals && rotationSignals.length > 0` is false for
\* an undefined and for an empty list
generateStrategyRecommendations(state) ==
    IF IsDefined(state.rotationSignals) /\ Len(state.rotationSignals[1]) > 0
    THEN [i \in 1..Len(state.rotationSignals[1]) |->
              signalRecommendation(state.rotationSignals[1][i])]
    ELSE <<defaultRecommendation(state.marketCondition.vix, state.metrics.sharpeRatio)>>

(***************************************************************************)
(* calculateStrategyConfidence                                             *)
(***************************************************************************)
\* Math.max
RMax(a, b) == IF RLess(a, b) THEN b ELSE a

\* calculateMarketMetrics, line 79
marketTrend(sharpeRatio) == IF RLess(Zero, sharpeRatio) THEN "positive" ELSE "negative"

\* fault variant of calculateStrategyConfidence: base confidence 0.8 and the
\* result not clamped
calculateStrategyConfidenceUnclamped(vixLevel, sharpeRatio, trend) ==
    LET afterVix ==
            IF vixLevel > 30 THEN RSub(Rat(8, 10), Rat(2, 10))
            ELSE IF vixLevel < 15 THEN RAdd(Rat(8, 10), Rat(1, 10))
            ELSE Rat(8, 10)
        afterSharpe ==
            IF RLess(sharpeRatio, Rat(-1, 1)) THEN RSub(afterVix, Rat(2, 10))
            ELSE IF RLess(One, sharpeRatio) THEN RAdd(afterVix, Rat(1, 10))
            ELSE afterVix
    IN  IF trend = "positive" /\ RLess(Zero, sharpeRatio)
        THEN RAdd(afterSharpe, Rat(1, 10))
        ELSE IF trend = "negative" /\ RLess(sharpeRatio, Zero)
        THEN RAdd(afterSharpe, Rat(1, 10))
        ELSE RSub(afterSharpe, Rat(1, 10))

\* lines 491-524; trend is marketMetrics.marketTrend
calculateStrategyConfidence(vixLevel, sharpeRatio, trend) ==
    LET afterVix ==
            IF vixLevel > 30 THEN RSub(Rat(7, 10), Rat(2, 10))
            ELSE IF vixLevel < 15 THEN RAdd(Rat(7, 10), Rat(1, 10))
            ELSE Rat(7, 10)
        afterSharpe ==
            IF RLess(sharpeRatio, Rat(-1, 1)) THEN RSub(afterVix, Rat(2, 10))
            ELSE IF RLess(One, sharpeRatio) THEN RAdd(afterVix, Rat(1, 10))
            ELSE afterVix
        afterTrend ==
            IF trend = "positive" /\ RLess(Zero, sharpeRatio)
            THEN RAdd(afterSharpe, Rat(1, 10))
            ELSE IF trend = "negative" /\ RLess(sharpeRatio, Zero)
            THEN RAdd(afterSharpe, Rat(1, 10))
            ELSE RSub(afterSharpe, Rat(1, 10))
    IN  RMax(Zero, RMin(One, afterTrend))

(***************************************************************************)
(* identifyStrategyRisks                                                   *)
(***************************************************************************)
VolatilityRisk == "Elevated market volatility increases downside risk"
SharpeRisk == "Negative risk-adjusted returns (Sharpe ratio)"
PositionLimitRisk == "Position sizes exceed recommended limits, increasing concentration risk"
PerformanceRisk == "Weak option ETF performance may indicate continued pressure"
NavErosionRisk == "Significant NAV erosion detected in option ETFs"
YieldRisk == "Portfolio yield below target threshold"
FallbackRisk == "Weak trend strength may lead to false signals"

\* holdings.filter(...).length > 0 for the option ETFs (lines 546-554)
someOptionETF(holdings, field, threshold) ==
    \E i \in 1..Len(holdings) :
        /\ holdings[i].symbol \in {"FEPI", "QQQY", "SDTY"}
        /\ RLess(holdings[i][field], threshold)

\* the risks pushed by the conditions of lines 531-563, in that order; the
\* last of them (the yield) is left out when withYield is FALSE
conditionRisks(state, exceedsPositionLimits, withYield) ==
    (IF state.marketCondition.vix > 25 THEN <<VolatilityRisk>> ELSE << >>)
    \o (IF RLess(state.metrics.sharpeRatio, Zero) THEN <<SharpeRisk>> ELSE << >>)
    \o (IF exceedsPositionLimits THEN <<PositionLimitRisk>> ELSE << >>)
    \o (IF someOptionETF(state.holdings, "weeklyPerformance", Rat(-3, 1))
        THEN <<PerformanceRisk>> ELSE << >>)
    \o (IF someOptionETF(state.holdings, "navErosion", Rat(-5, 1))
        THEN <<NavErosionRisk>> ELSE << >>)
    \o (IF withYield /\ RLess(state.metrics.totalYield, Rat(1, 10))
        THEN <<YieldRisk>> ELSE << >>)

\* fault variant of identifyStrategyRisks: the fallback is decided before the
\* yield is looked at
identifyStrategyRisksEarlyFallback(state, exceedsPositionLimits) ==
    LET early == conditionRisks(state, exceedsPositionLimits, FALSE)
        filled == IF Len(early) = 0 THEN <<FallbackRisk>> ELSE early
    IN  filled \o (IF RLess(state.metrics.totalYield, Rat(1, 10))
                   THEN <<YieldRisk>> ELSE << >>)

\* lines 526-571
identifyStrategyRisks(state, exceedsPositionLimits) ==
    LET risks == conditionRisks(state, exceedsPositionLimits, TRUE)
    IN  IF Len(risks) = 0 THEN <<FallbackRisk>> ELSE risks

(***************************************************************************)
(* ReportGenerationAgent.generateReport: getRecommendation (lines 636-656) *)
(***************************************************************************)
Actions == <<"BUY", "SELL", "HOLD">>

RECURSIVE convictionOf(_, _)
\* the sum of the convictions of the recommendations in recs whose action is
\* in `actions`
convictionOf(recs, actions) ==
    IF recs = << >> THEN 0
    ELSE (IF Head(recs).action \in actions THEN Head(recs).conviction ELSE 0)
         + convictionOf(Tail(recs), actions)

RECURSIVE countOf(_, _)
countOf(recs, action) ==
    IF recs = << >> THEN 0
    ELSE (IF Head(recs).action = action THEN 1 ELSE 0) + countOf(Tail(recs), action)

\* lines 637-645: each action's share of the total conviction; with no
\* recommendation the reduce returns its initial value, all shares 0
weightedAction(recs) ==
    LET totalConviction == convictionOf(recs, {"BUY", "SELL", "HOLD"})
    IN  [a \in {"BUY", "SELL", "HOLD"} |->
            IF recs = << >> THEN Zero
            ELSE Rat(convictionOf(recs, {a}), totalConviction)]

\* fault variant of greaterEntry: a[1] >= b[1] ? a : b
greaterEntryFirstWins(a, b) == IF RLeq(b[2], a[2]) THEN a ELSE b

\* the callback of the reduce of line 648: a[1] > b[1] ? a : b
greaterEntry(a, b) == IF RLess(b[2], a[2]) THEN a ELSE b

\* lines 647-648: Object.entries(weightedAction) in the order BUY, SELL, HOLD,
\* reduced from the left
dominantAction(recs) ==
    LET w == weightedAction(recs)
        entries == [i \in 1..3 |-> <<Actions[i], w[Actions[i]]>>]
    IN  greaterEntry(greaterEntry(entries[1], entries[2]), entries[3])[1]

\* lines 650-655; the conviction is undefined (NaN) when no recommendation
\* has the dominant action
getRecommendation(recs) ==
    LET action == dominantAction(recs)
    IN  [action |-> action,
         conviction |->
            IF countOf(recs, action) = 0 THEN Undefined
            ELSE Some(Round(Rat(convictionOf(recs, {action}), countOf(recs, action))))]

\* Array.filter on the timeframe (lines 628 and 633)
RECURSIVE filterTimeframe(_, _)
filterTimeframe(recs, timeframe) ==
    IF recs = << >> THEN << >>
    ELSE (IF Head(recs).timeframe = timeframe THEN <<Head(recs)>> ELSE << >>)
         \o filterTimeframe(Tail(recs), timeframe)

(***************************************************************************)
(* ReportGenerationAgent.generateReport: the combined confidence           *)
(***************************************************************************)
\* fault variant of combinedConfidence: the sentiment weight 0.3
combinedConfidenceWeightsOff(fundamental, technical, sentiment, macro) ==
    RAdd(RAdd(RAdd(RMul(fundamental, Rat(3, 10)), RMul(technical, Rat(3, 10))),
              RMul(sentiment, Rat(3, 10))),
         RMul(macro, Rat(2, 10)))

\* lines 609-621
combinedConfidence(fundamental, technical, sentiment, macro) ==
    RAdd(RAdd(RAdd(RMul(fundamental, Rat(3, 10)), RMul(technical, Rat(3, 10))),
              RMul(sentiment, Rat(2, 10))),
         RMul(macro, Rat(2, 10)))

(***************************************************************************)
(* ReportGenerationAgent.generateActionPlan                                *)
(***************************************************************************)
\* `metrics.vixLevel as number || 0`
vixLevelOrZero(metrics) == IF IsDefined(metrics.vixLevel) THEN metrics.vixLevel[1] ELSE 0

\* lines 730-742: the plan object of the metrics after generateActionPlan has
\* normalized its totals in place
normalizedInPlace(recommendedAllocations) ==
    LET total ==
            RAdd(RAdd(recommendedAllocations.incomePie.total,
                      recommendedAllocations.shortTermTreasury.total),
                 recommendedAllocations.treasuryETF.total)
    IN  IF RLess(Rat(1, 1000), RAbs(RSub(total, One)))
        THEN LET normalizationFactor == RDiv(One, total)
             IN  [recommendedAllocations EXCEPT
                    !.incomePie.total = RMul(@, normalizationFactor),
                    !.shortTermTreasury.total = RMul(@, normalizationFactor),
                    !.treasuryETF.total = RMul(@, normalizationFactor)]
        ELSE recommendedAllocations

\* the metrics object after generateActionPlan: recommendedAllocations is
\* normalized in place when present (lines 723-728: otherwise the local
\* defaultAllocations are used, which sum to 1)
metricsAfterActionPlan(metrics) ==
    [metrics EXCEPT
        !.recommendedAllocations =
            IF IsDefined(@) THEN Some(normalizedInPlace(@[1])) ELSE Undefined]

\* an entry of the action plan: the sentence, and the symbol it names if any
ActionItem(sentence, symbol) == [sentence |-> sentence, symbol |-> symbol]
ReduceExposureAction == ActionItem("Reduce option ETF exposure", "")
RebalanceAction == ActionItem("Rebalance individual option ETF positions", "")
ReduceCombinedAction == ActionItem("Reduce combined option ETF allocation", "")
MonitorYieldCurveAction == ActionItem("Monitor Treasury yield curve", "")
ReviewDistributionsAction == ActionItem("Review distribution schedules", "")

\* getRotationSignals (lines 830-854): a sentence for each INCREASE, REDUCE
\* and ROTATE signal, the signals of other types dropped
RECURSIVE signalSentences(_)
signalSentences(signals) ==
    IF signals = << >> THEN << >>
    ELSE (IF Head(signals).type = "INCREASE"
             THEN <<ActionItem("Increase allocation", Head(signals).symbol)>>
          ELSE IF Head(signals).type = "REDUCE"
             THEN <<ActionItem("Reduce allocation", Head(signals).symbol)>>
          ELSE IF Head(signals).type = "ROTATE"
             THEN <<ActionItem("Rotate", Head(signals).symbol)>>
          ELSE << >>)
         \o signalSentences(Tail(signals))

getRotationSignals(metrics) ==
    IF IsDefined(metrics.rotationSignals)
    THEN signalSentences(metrics.rotationSignals[1]) ELSE << >>

\* lines 748-766: the actions that apply to the portfolio
specificActions(metrics) ==
    LET rotationSignals == getRotationSignals(metrics)
    IN  (IF vixLevelOrZero(metrics) > 25 THEN <<ReduceExposureAction>> ELSE << >>)
        \o (IF Len(rotationSignals) > 0 THEN <<rotationSignals[1]>> ELSE << >>)
        \o (IF metrics.exceedsPositionLimits THEN <<RebalanceAction>> ELSE << >>)
        \o (IF metrics.exceedsCombinedLimits THEN <<ReduceCombinedAction>> ELSE << >>)

\* lines 744-780: the numbered entries of the action plan
generateActionPlan(metrics) ==
    LET specific == specificActions(metrics)
        withMonitor ==
            IF Len(specific) < 3 THEN Append(specific, MonitorYieldCurveAction)
            ELSE specific
        withReview ==
            IF Len(withMonitor) < 3 THEN Append(withMonitor, ReviewDistributionsAction)
            ELSE withMonitor
    IN  SubSeq(withReview, 1, IF Len(withReview) < 4 THEN Len(withReview) ELSE 4)

(***************************************************************************)
(* ReportGenerationAgent.generateRiskSnapshot                              *)
(***************************************************************************)
\* fault variant of generateRiskSnapshot: the sources in the order of the
\* report's risks field (fundamental, technical, sentiment, macro)
generateRiskSnapshotReportOrder(fundamental, technical, sentiment, macro) ==
    LET all == fundamental \o technical \o sentiment \o macro
    IN  SubSeq(all, 1, IF Len(all) < 3 THEN Len(all) ELSE 3)

\* lines 811-816: the risks the snapshot lists, from the risks of the four
\* analyses
generateRiskSnapshot(fundamental, technical, sentiment, macro) ==
    LET all == macro \o technical \o fundamental \o sentiment
    IN  SubSeq(all, 1, IF Len(all) < 3 THEN Len(all) ELSE 3)

(***************************************************************************)
(* State                                                                   *)
(***************************************************************************)
VARIABLES
    \* one call of NaturalLanguageSummaryAgent.analyze
    portfolioState,       \* input.portfolioState
    actualAllocations,    \* input.actualAllocations
    positionLimits,       \* input.positionLimits (optional, fields optional)
    pc,                   \* position in analyze
    allocations,          \* const allocations (line 22), optional
    adjustedAllocations,  \* const adjustedAllocations (line 25), optional
    output,               \* the AgentOutput returned, optional
    strategyResult,       \* the result of a direct call of one of the methods
                          \* analyze calls on the portfolio state, optional
    \* calls of normalizeAllocations on one plan object
    norm,
    \* one call of ReportGenerationAgent.generateReport
    analyses,             \* the upstream AgentOutputs, by name
    macroMetrics,         \* macroAnalysis.metrics
    rpc,                  \* position in generateReport
    recs,                 \* shortTermRecs and longTermRecs, optional
    finalRecs,            \* the two results of getRecommendation, optional
    report,               \* the AnalysisReport returned, optional
    \* the App component and its handleSearch
    app,                  \* the React state of App
    search                \* the invocation of handleSearch: its position, the
                          \* values it closed over and the services it called

inputs == <<portfolioState, actualAllocations, positionLimits>>
analyzeVars ==
    <<inputs, pc, allocations, adjustedAllocations, output, strategyResult>>
reportVars == <<analyses, macroMetrics, rpc, recs, finalRecs, report>>
searchVars == <<app, search>>
vars == <<analyzeVars, norm, reportVars, searchVars>>

RECURSIVE SeqsUpTo(_, _)
\* the sequences over S of length at most n
SeqsUpTo(S, n) ==
    IF n = 0 THEN {<< >>}
    ELSE LET shorter == SeqsUpTo(S, n - 1)
         IN  shorter \cup {Append(s, x) : s \in shorter, x \in S}

\* no call of analyze, of normalizeAllocations, of generateReport in progress
AnalyzeIdle ==
    /\ portfolioState = Undefined
    /\ actualAllocations = Undefined
    /\ positionLimits = Undefined
    /\ pc = "idle"
    /\ allocations = Undefined
    /\ adjustedAllocations = Undefined
    /\ output = Undefined
    /\ strategyResult = Undefined
NormIdle == norm = Undefined
SearchIdle == app = Undefined /\ search = Undefined
ReportIdle ==
    /\ analyses = Undefined
    /\ macroMetrics = Undefined
    /\ rpc = "idle"
    /\ recs = Undefined
    /\ finalRecs = Undefined
    /\ report = Undefined

(***************************************************************************)
(* NaturalLanguageSummaryAgent.analyze as a state machine: one call, whose *)
(* position pc moves through the steps of the method body                  *)
(***************************************************************************)
VixLevels == {20, 25, 30, 31}

\* the symbols a portfolio may hold: two option ETFs, the short-term
\* treasury, the treasury ETF and a symbol of none of the three buckets
HoldingSymbols == <<"FEPI", "QQQY", "SHY", "EDV", "AAPL">>
HoldingAllocations == {Rat(10, 100), Rat(70, 100)}

RECURSIVE PortfoliosFrom(_, _)
\* the holdings lists of at most n holdings over the symbols from index i on,
\* each symbol held at most once, in the order of HoldingSymbols (the sums of
\* calculateAllocations do not depend on the order of the list)
PortfoliosFrom(i, n) ==
    IF i > Len(HoldingSymbols) \/ n = 0 THEN {<< >>}
    ELSE PortfoliosFrom(i + 1, n) \cup
         {<<[symbol |-> HoldingSymbols[i], allocation |-> a]>> \o rest :
             a \in HoldingAllocations, rest \in PortfoliosFrom(i + 1, n - 1)}

\* the holdings lists of the inputs: allocations are fractions of one
\* portfolio, so those of a list sum to at most 1
HoldingsInputs ==
    {h \in PortfoliosFrom(1, MaxHoldings) :
        RLeq(currentAllocation(h, {HoldingSymbols[i] : i \in DOMAIN HoldingSymbols}),
             One)}

RotationSignals == [type : {"INCREASE"}, symbol : {"FEPI"}, urgency : {"HIGH"}]

\* the limits of the inputs, each missing, 0, or a fraction of the portfolio
\* (the combined cap also the whole portfolio)
PositionLimitsInputs ==
    {Undefined} \cup
    {Some(l) : l \in
        [maxSingleOptionETF : {Undefined, Some(Zero), Some(Rat(10, 100))},
         maxCombinedOptionETFs : {Undefined, Some(Zero), Some(Rat(40, 100)), Some(One)},
         idealIncomePieAllocation : {Undefined, Some(Rat(20, 100))}]}

\* the Sharpe ratio, the yield and the holdings of the portfolio state play no
\* part in the allocation plans: one value each
Init ==
    /\ portfolioState \in
          [marketCondition : [vix : VixLevels],
           metrics : [sharpeRatio : {Rat(1, 2)}, totalYield : {Rat(12, 100)}],
           holdings : {<< >>},
           rotationSignals :
              {Undefined} \cup {Some(s) : s \in SeqsUpTo(RotationSignals, MaxSignals)}]
    /\ actualAllocations \in
          [holdings : HoldingsInputs,
           limitExceeded : [individualPositions : BOOLEAN,
                            combinedOptionETFs : BOOLEAN]]
    /\ positionLimits \in PositionLimitsInputs
    /\ pc = "start"
    /\ allocations = Undefined
    /\ adjustedAllocations = Undefined
    /\ output = Undefined
    /\ strategyResult = Undefined
    /\ NormIdle
    /\ SearchIdle
    /\ ReportIdle

\* the whole of analyze (lines 4-70), which has no await in it.  Lines 22
\* and 25 compute the two plans; generateDetailedAnalysis (line 36) calls
\* getImplementationStrategy, which reads portfolioState.rotationSignals.length
\* (line 395) of the portfolio state itself, not the defaulted list of line
\* 12: a TypeError when rotationSignals is undefined, and analyze rejects.
\* Of the summary text the output keeps the three displayed percentages.
Analyze ==
    /\ pc = "start"
    /\ LET vixLevel == portfolioState.marketCondition.vix
           sharpeRatio == portfolioState.metrics.sharpeRatio
           exceedsPositionLimits == actualAllocations.limitExceeded.individualPositions
           plan == calculateAllocations(vixLevel, actualAllocations, positionLimits)
           adjusted == generateAdjustedAllocations(plan, positionLimits)
       IN  /\ allocations' = Some(plan)
           /\ adjustedAllocations' = Some(adjusted)
           /\ IF IsDefined(portfolioState.rotationSignals)
              THEN /\ output' = Some(
                        [summary |-> generateStrategySummary(adjusted),
                         confidence |->
                            calculateStrategyConfidence(vixLevel, sharpeRatio,
                                                        marketTrend(sharpeRatio)),
                         recommendations |->
                            generateStrategyRecommendations(portfolioState),
                         risks |->
                            identifyStrategyRisks(portfolioState, exceedsPositionLimits),
                         metrics |->
                           [vixLevel |-> portfolioState.marketCondition.vix,
                            recommendedAllocations |-> adjusted,
                            rotationSignals |-> portfolioState.rotationSignals,
                            exceedsPositionLimits |->
                                actualAllocations.limitExceeded.individualPositions,
                            exceedsCombinedLimits |->
                                actualAllocations.limitExceeded.combinedOptionETFs]])
                   /\ pc' = "returned"
              ELSE /\ output' = Undefined
                   /\ pc' = "threw"
    /\ UNCHANGED <<inputs, strategyResult, norm, reportVars, searchVars>>

Next == Analyze

Spec == Init /\ [][Next]_vars

(***************************************************************************)
(* analyze and the methods it applies to the portfolio state               *)
(* (generateStrategyRecommendations, identifyStrategyRisks), each called   *)
(* on portfolio states of every shape                                      *)
(***************************************************************************)
StrategyVixLevels == {10, 15, 25, 26, 31}
SharpeRatios == {Rat(-2, 1), Rat(-1, 2), Zero, Rat(1, 2), Rat(2, 1)}
TotalYields == {Rat(5, 100), Rat(1, 10)}

\* rotation signals of every type (ROTATE is none of INCREASE and REDUCE) and
\* urgency
StrategySignals ==
    {[type |-> "INCREASE", symbol |-> "FEPI", urgency |-> "HIGH"],
     [type |-> "REDUCE", symbol |-> "QQQY", urgency |-> "MEDIUM"],
     [type |-> "ROTATE", symbol |-> "SDTY", urgency |-> "LOW"],
     [type |-> "REDUCE", symbol |-> "FEPI", urgency |-> "HIGH"]}

\* holdings of the portfolio state: an option ETF and a stock, each absent,
\* doing well, with a weak week, or with an eroded net asset value
StrategyHoldingSymbols == <<"FEPI", "AAPL">>
HoldingPerformances ==
    {[weeklyPerformance |-> Zero, navErosion |-> Zero],
     [weeklyPerformance |-> Rat(-4, 1), navErosion |-> Zero],
     [weeklyPerformance |-> Zero, navErosion |-> Rat(-6, 1)]}

RECURSIVE StrategyHoldingsFrom(_, _)
StrategyHoldingsFrom(i, n) ==
    IF i > Len(StrategyHoldingSymbols) \/ n = 0 THEN {<< >>}
    ELSE StrategyHoldingsFrom(i + 1, n) \cup
         {<<[symbol |-> StrategyHoldingSymbols[i],
             weeklyPerformance |-> perf.weeklyPerformance,
             navErosion |-> perf.navErosion]>> \o rest :
             perf \in HoldingPerformances, rest \in StrategyHoldingsFrom(i + 1, n - 1)}

InitStrategy ==
    /\ portfolioState \in
          [marketCondition : [vix : StrategyVixLevels],
           metrics : [sharpeRatio : SharpeRatios, totalYield : TotalYields],
           holdings : StrategyHoldingsFrom(1, MaxHoldings),
           rotationSignals :
              {Undefined} \cup
              {Some(s) : s \in SeqsUpTo(StrategySignals, MaxStrategySignals)}]
    /\ actualAllocations \in
          [holdings : {<< >>},
           limitExceeded : [individualPositions : BOOLEAN,
                            combinedOptionETFs : {FALSE}]]
    /\ positionLimits = Undefined
    /\ pc = "start"
    /\ allocations = Undefined
    /\ adjustedAllocations = Undefined
    /\ output = Undefined
    /\ strategyResult = Undefined
    /\ NormIdle
    /\ SearchIdle
    /\ ReportIdle

\* one call generateStrategyRecommendations(portfolioState)
GenerateStrategyRecommendations ==
    /\ pc = "start"
    /\ strategyResult' =
          Some([method |-> "generateStrategyRecommendations",
                value |-> generateStrategyRecommendations(portfolioState)])
    /\ pc' = "called"
    /\ UNCHANGED <<inputs, allocations, adjustedAllocations, output, norm, reportVars,
                   searchVars>>

\* one call identifyStrategyRisks(portfolioState, exceedsPositionLimits), the
\* flag as analyze passes it (line 15)
IdentifyStrategyRisks ==
    /\ pc = "start"
    /\ strategyResult' =
          Some([method |-> "identifyStrategyRisks",
                value |-> identifyStrategyRisks(
                             portfolioState,
                             actualAllocations.limitExceeded.individualPositions)])
    /\ pc' = "called"
    /\ UNCHANGED <<inputs, allocations, adjustedAllocations, output, norm, reportVars,
                   searchVars>>

NextStrategy ==
    \/ Analyze
    \/ GenerateStrategyRecommendations
    \/ IdentifyStrategyRisks

SpecStrategy == InitStrategy /\ [][NextStrategy]_vars

(***************************************************************************)
(* normalizeAllocations applied, repeatedly, to one plan object            *)
(***************************************************************************)
\* bucket totals of the plans normalizeAllocations is applied to: the tenths
\* up to MaxTenths/10, and two values that put a sum within 0.001 of 1
NormTotals ==
    {Rat(k, 10) : k \in 0..MaxTenths} \cup {Rat(1999, 10000), Rat(2005, 10000)}

\* plans with a positive sum (every plan the program builds has one)
NormPlans ==
    {p \in {Plan(a, Rat(35, 100), Rat(35, 100), Rat(30, 100), b, c, "") :
                a \in NormTotals, b \in NormTotals, c \in NormTotals} :
        RLess(Zero, totalAllocation(p))}

InitNorm ==
    /\ AnalyzeIdle
    /\ ReportIdle
    /\ SearchIdle
    /\ norm \in {Some([allocations |-> p, before |-> << >>]) : p \in NormPlans}

\* one call normalizeAllocations(norm.allocations); before records the value
\* of the object at each earlier call
NormalizeAllocations ==
    /\ IsDefined(norm)
    /\ Len(norm[1].before) < MaxNormalizeCalls
    /\ norm' = Some([allocations |-> normalizeAllocations(norm[1].allocations),
                     before |-> Append(norm[1].before, norm[1].allocations)])
    /\ UNCHANGED <<analyzeVars, reportVars, searchVars>>

NextNorm == NormalizeAllocations

SpecNorm == InitNorm /\ [][NextNorm]_vars

(***************************************************************************)
(* ReportGenerationAgent.generateReport as a state machine                 *)
(***************************************************************************)
Timeframes == {"short-term", "medium-term", "long-term"}
Convictions == {3 * k : k \in 1..MaxConvictionLevel}
Recommendations ==
    [action : {"BUY", "SELL", "HOLD"}, timeframe : Timeframes, conviction : Convictions]

\* the analyses whose recommendations, confidence and risks generateReport
\* combines, and the one of which it quotes the summary only
ReportSources == {"fundamental", "technical", "sentiment", "macro"}
AnalysisNames == ReportSources \cup {"naturalLanguage"}

\* the recommendations lists of an upstream AgentOutput; generateReport reads
\* only recommendations[0], so the lists are the empty list and the lists of
\* one recommendation
RecommendationLists == {<< >>} \cup {<<r>> : r \in Recommendations}

\* an upstream AgentOutput
AgentOutput(recommendations, confidence, risks) ==
    [recommendations |-> recommendations, confidence |-> confidence, risks |-> risks]

\* metrics of a macro analysis without plan, VIX level and signals
PlainMetrics ==
    [recommendedAllocations |-> Undefined, vixLevel |-> Undefined,
     rotationSignals |-> Undefined,
     exceedsPositionLimits |-> FALSE, exceedsCombinedLimits |-> FALSE]

\* calls whose analyses differ in their recommendations
InitReport ==
    /\ AnalyzeIdle
    /\ NormIdle
    /\ SearchIdle
    /\ analyses \in
          {[a \in AnalysisNames |->
                AgentOutput(IF a \in ReportSources THEN lists[a] ELSE << >>,
                            Rat(1, 2), << >>)] :
              lists \in [ReportSources -> RecommendationLists]}
    /\ macroMetrics = PlainMetrics
    /\ rpc = "start"
    /\ recs = Undefined
    /\ finalRecs = Undefined
    /\ report = Undefined

\* the whole of generateReport (lines 576-700).  The report text is built
\* first (lines 588-606): generateActionPlan normalizes the plan object of
\* macroAnalysis.metrics in place, generateRiskSnapshot lists the risks.
\* Lines 624-633 build the arrays from recommendations[0] of each analysis,
\* which is undefined for an empty list, and the filter callback reads
\* rec.timeframe of each element: a TypeError on undefined.  Lines 659-660
\* call getRecommendation on both.
GenerateReport ==
    /\ rpc = "start"
    /\ macroMetrics' = metricsAfterActionPlan(macroMetrics)
    /\ IF \E a \in ReportSources : analyses[a].recommendations = << >>
       THEN /\ rpc' = "threw"
            /\ UNCHANGED <<recs, finalRecs, report>>
       ELSE LET shortTermRecs == filterTimeframe(
                    <<analyses["technical"].recommendations[1],
                      analyses["sentiment"].recommendations[1],
                      analyses["macro"].recommendations[1]>>, "short-term")
                longTermRecs == filterTimeframe(
                    <<analyses["fundamental"].recommendations[1],
                      analyses["technical"].recommendations[1]>>, "long-term")
            IN  /\ recs' = Some([shortTerm |-> shortTermRecs, longTerm |-> longTermRecs])
                /\ finalRecs' = Some([shortTerm |-> getRecommendation(shortTermRecs),
                                      longTerm |-> getRecommendation(longTermRecs)])
                /\ report' = Some(
                      [priorityActions |-> generateActionPlan(macroMetrics'),
                       allRisks |->
                          generateRiskSnapshot(analyses["fundamental"].risks,
                                               analyses["technical"].risks,
                                               analyses["sentiment"].risks,
                                               analyses["macro"].risks),
                       confidence |->
                          combinedConfidence(analyses["fundamental"].confidence,
                                             analyses["technical"].confidence,
                                             analyses["sentiment"].confidence,
                                             analyses["macro"].confidence)])
                /\ rpc' = "returned"
    /\ UNCHANGED <<analyzeVars, norm, analyses, searchVars>>

NextReport == GenerateReport

SpecReport == InitReport /\ [][NextReport]_vars

(***************************************************************************)
(* generateReport called with macro metrics of every shape                 *)
(***************************************************************************)
\* VIX levels of the metrics: missing, and on both sides of 25
ReportVixLevels == {Undefined, Some(20), Some(26)}

\* rotation signals of the metrics: the three types getRotationSignals turns
\* into sentences, and one it drops
ReportSignals ==
    {[type |-> "INCREASE", symbol |-> "FEPI"],
     [type |-> "ROTATE", symbol |-> "EDV"],
     [type |-> "WATCH", symbol |-> "QQQY"]}

\* plans of the metrics: bucket totals in tenths, with a positive sum
ReportPlans ==
    {p \in {Plan(Rat(a, 10), Rat(33, 100), Rat(33, 100), Rat(34, 100),
                 Rat(b, 10), Rat(c, 10), "") :
                a \in 0..MaxTenths, b \in {2, MaxTenths}, c \in {3, MaxTenths}} :
        RLess(Zero, totalAllocation(p))}

\* a recommendation every analysis of these calls makes
PlainRecommendation ==
    [action |-> "HOLD", timeframe |-> "medium-term", conviction |-> 3]

InitReportMetrics ==
    /\ AnalyzeIdle
    /\ NormIdle
    /\ SearchIdle
    /\ analyses \in
          {[a \in AnalysisNames |->
                AgentOutput(IF a = "technical" THEN technicalList
                            ELSE <<PlainRecommendation>>,
                            Rat(1, 2), << >>)] :
              technicalList \in {<< >>, <<PlainRecommendation>>}}
    /\ macroMetrics \in
          [recommendedAllocations : {Undefined} \cup {Some(p) : p \in ReportPlans},
           vixLevel : ReportVixLevels,
           rotationSignals :
              {Undefined} \cup {Some(s) : s \in SeqsUpTo(ReportSignals, MaxSignals)},
           exceedsPositionLimits : BOOLEAN,
           exceedsCombinedLimits : BOOLEAN]
    /\ rpc = "start"
    /\ recs = Undefined
    /\ finalRecs = Undefined
    /\ report = Undefined

SpecReportMetrics == InitReportMetrics /\ [][NextReport]_vars

(***************************************************************************)
(* generateReport called with analyses of every confidence and risks list  *)
(***************************************************************************)
Confidences == {Zero, Rat(1, 2), One}

\* the risks of each analysis, in the order the analysis lists them
SourceRisks ==
    [macro |-> <<"macro risk 1", "macro risk 2", "macro risk 3", "macro risk 4">>,
     technical |-> <<"technical risk 1", "technical risk 2">>,
     fundamental |-> <<"fundamental risk 1">>,
     sentiment |-> <<"sentiment risk 1">>,
     naturalLanguage |-> <<"strategy risk 1">>]

\* the risks lists of an analysis: the first k of its risks (of the macro
\* analysis at most MaxMacroRisks)
RiskLists(a) ==
    {SubSeq(SourceRisks[a], 1, k) :
        k \in 0..(IF a = "macro" /\ MaxMacroRisks < Len(SourceRisks[a])
                  THEN MaxMacroRisks ELSE Len(SourceRisks[a]))}

InitReportScores ==
    /\ AnalyzeIdle
    /\ NormIdle
    /\ SearchIdle
    /\ analyses \in
          {[a \in AnalysisNames |->
                AgentOutput(<<PlainRecommendation>>, confidence[a], risks[a])] :
              confidence \in {c \in [AnalysisNames -> Confidences] :
                                 c["naturalLanguage"] \in {Zero, One}},
              risks \in {r \in [AnalysisNames -> UNION {RiskLists(a) : a \in AnalysisNames}] :
                            /\ \A a \in AnalysisNames : r[a] \in RiskLists(a)
                            /\ r["naturalLanguage"] = SourceRisks["naturalLanguage"]}}
    /\ macroMetrics = PlainMetrics
    /\ rpc = "start"
    /\ recs = Undefined
    /\ finalRecs = Undefined
    /\ report = Undefined

SpecReportScores == InitReportScores /\ [][NextReport]_vars

(***************************************************************************)
(* App.handleSearch (lines 978-1037).  The data a service returns to the   *)
(* search number k is the number k; 0 is the initial value of a state      *)
(* ([], null or '').  A service call settles as "ok", or rejects with an   *)
(* Error ("Error") or with a value that is no Error ("other").             *)
(***************************************************************************)
Symbols == {"", "AAPL", "MSFT"}
Settlements == {"ok", "Error", "other"}

\* the message of the Error a service rejects with
ServiceMessage ==
    [fetchStockData |-> "stock data unavailable",
     fetchNews |-> "news unavailable",
     calculateIndicators |-> "indicators unavailable",
     fetchDividendData |-> "dividend data unavailable",
     generateAnalysis |-> "analysis unavailable"]

FetchingDefaultMessage == "An error occurred while fetching data"
AnalysisDefaultMessage == "An error occurred while generating analysis"

\* error instanceof Error ? error.message : dflt (lines 1026 and 1032)
messageOf(service, settlement, dflt) ==
    IF settlement = "Error" THEN ServiceMessage[service] ELSE dflt

\* the state of App after useState (lines 929-943)
InitialApp ==
    [symbol |-> "", loading |-> FALSE, stockData |-> 0, indicators |-> 0,
     news |-> 0, analysis |-> 0, error |-> "", dividendData |-> 0,
     dividendLoading |-> FALSE, analysisLoading |-> FALSE]

\* submits counts the submissions of the form, number the searches they
\* started
NoSearch ==
    [pc |-> "idle", submits |-> 0, number |-> 0, symbol |-> "",
     invoked |-> {}, failed |-> {},
     before |-> [stockData |-> 0, indicators |-> 0, news |-> 0]]

\* lines 1031-1036: the outer catch and finally
caughtWhileFetching(a, s, service, settlement) ==
    [app |-> [a EXCEPT !.error = messageOf(service, settlement, FetchingDefaultMessage),
                       !.loading = FALSE],
     search |-> [s EXCEPT !.pc = "idle", !.failed = @ \cup {service}]]

\* lines 979-995: up to the await of Promise.all
searchSubmitted(a, s) ==
    IF a.symbol = ""
    THEN [app |-> a, search |-> [s EXCEPT !.submits = @ + 1]]
    ELSE [app |-> [a EXCEPT !.loading = TRUE, !.error = "",
                            !.dividendLoading = TRUE, !.dividendData = 0,
                            !.analysis = 0, !.analysisLoading = FALSE],
          search |-> [pc |-> "fetching", submits |-> s.submits + 1,
                      number |-> s.number + 1,
                      symbol |-> a.symbol,
                      invoked |-> {"fetchStockData", "fetchNews"},
                      failed |-> {},
                      before |-> [stockData |-> a.stockData,
                                  indicators |-> a.indicators,
                                  news |-> a.news]]]

\* lines 992-997: Promise.all has settled; it rejects as soon as one of the
\* two rejects (first names the one that rejects first when both do)
fetchSettled(a, s, stock, news, first) ==
    IF stock = "ok" /\ news = "ok"
    THEN [app |-> a,
          search |-> [s EXCEPT !.pc = "indicators",
                               !.invoked = @ \cup {"calculateIndicators"}]]
    ELSE LET rejecting ==
                 IF stock # "ok" /\ (news = "ok" \/ first = "fetchStockData")
                 THEN "fetchStockData" ELSE "fetchNews"
             caught == caughtWhileFetching(
                          a, s, rejecting,
                          IF rejecting = "fetchStockData" THEN stock ELSE news)
         IN  [caught EXCEPT
                 !.search.failed =
                     (IF stock # "ok" THEN {"fetchStockData"} ELSE {})
                     \cup (IF news # "ok" THEN {"fetchNews"} ELSE {})]

\* lines 997-1004: calculateIndicators has settled
indicatorsSettled(a, s, settlement) ==
    IF settlement = "ok"
    THEN [app |-> [a EXCEPT !.stockData = s.number, !.indicators = s.number,
                            !.news = s.number],
          search |-> [s EXCEPT !.pc = "dividend",
                               !.invoked = @ \cup {"fetchDividendData"}]]
    ELSE caughtWhileFetching(a, s, "calculateIndicators", settlement)

\* fault variant of dividendSettled: no try around fetchDividendData, a
\* rejection reaches the outer catch
dividendSettledUncontained(a, s, settlement) ==
    IF settlement = "ok"
    THEN [app |-> [a EXCEPT !.dividendData = s.number, !.dividendLoading = FALSE,
                            !.analysisLoading = TRUE],
          search |-> [s EXCEPT !.pc = "analysis",
                               !.invoked = @ \cup {"generateAnalysis"}]]
    ELSE caughtWhileFetching(a, s, "fetchDividendData", settlement)

\* lines 1003-1022: fetchDividendData has settled
dividendSettled(a, s, settlement) ==
    [app |-> [a EXCEPT !.dividendData = IF settlement = "ok" THEN s.number ELSE @,
                       !.dividendLoading = FALSE,
                       !.analysisLoading = TRUE],
     search |-> [s EXCEPT !.pc = "analysis",
                          !.invoked = @ \cup {"generateAnalysis"},
                          !.failed = IF settlement = "ok" THEN @
                                     ELSE @ \cup {"fetchDividendData"}]]

\* lines 1013-1036: generateAnalysis has settled
analysisSettled(a, s, settlement) ==
    [app |-> [a EXCEPT !.analysis = IF settlement = "ok" THEN s.number ELSE @,
                       !.error = IF settlement = "ok" THEN @
                                 ELSE messageOf("generateAnalysis", settlement,
                                                AnalysisDefaultMessage),
                       !.analysisLoading = FALSE,
                       !.loading = FALSE],
     search |-> [s EXCEPT !.pc = "idle",
                          !.failed = IF settlement = "ok" THEN @
                                     ELSE @ \cup {"generateAnalysis"}]]

InitSearch ==
    /\ AnalyzeIdle
    /\ NormIdle
    /\ ReportIdle
    /\ app = Some(InitialApp)
    /\ search = Some(NoSearch)

\* the input's onChange (line 1087)
SetSymbol ==
    /\ \E s \in Symbols :
          /\ s # app[1].symbol
          /\ app' = Some([app[1] EXCEPT !.symbol = s])
    /\ UNCHANGED <<analyzeVars, norm, reportVars, search>>

\* the form is submitted; the submit button is disabled while loading (line
\* 1095), so no search is in progress
HandleSearch ==
    /\ search[1].pc = "idle"
    /\ search[1].submits < MaxSearches
    /\ LET next == searchSubmitted(app[1], search[1])
       IN  app' = Some(next.app) /\ search' = Some(next.search)
    /\ UNCHANGED <<analyzeVars, norm, reportVars>>

FetchSettled ==
    /\ search[1].pc = "fetching"
    /\ \E stock \in Settlements, news \in Settlements,
          first \in {"fetchStockData", "fetchNews"} :
          LET next == fetchSettled(app[1], search[1], stock, news, first)
          IN  app' = Some(next.app) /\ search' = Some(next.search)
    /\ UNCHANGED <<analyzeVars, norm, reportVars>>

IndicatorsSettled ==
    /\ search[1].pc = "indicators"
    /\ \E settlement \in Settlements :
          LET next == indicatorsSettled(app[1], search[1], settlement)
          IN  app' = Some(next.app) /\ search' = Some(next.search)
    /\ UNCHANGED <<analyzeVars, norm, reportVars>>

DividendSettled ==
    /\ search[1].pc = "dividend"
    /\ \E settlement \in Settlements :
          LET next == dividendSettled(app[1], search[1], settlement)
          IN  app' = Some(next.app) /\ search' = Some(next.search)
    /\ UNCHANGED <<analyzeVars, norm, reportVars>>

AnalysisSettled ==
    /\ search[1].pc = "analysis"
    /\ \E settlement \in Settlements :
          LET next == analysisSettled(app[1], search[1], settlement)
          IN  app' = Some(next.app) /\ search' = Some(next.search)
    /\ UNCHANGED <<analyzeVars, norm, reportVars>>

NextSearch ==
    \/ SetSymbol
    \/ HandleSearch
    \/ FetchSettled
    \/ IndicatorsSettled
    \/ DividendSettled
    \/ AnalysisSettled

SpecSearch == InitSearch /\ [][NextSearch]_vars

(***************************************************************************)
(* Properties of analyze (specification Spec)                              *)
(***************************************************************************)
\* the plan analyze returned, when it has returned
returnedPlan == output[1].metrics.recommendedAllocations

\* the limits in force for the call: the locals maxSingleOptionETF and
\* maxCombinedOptionETFs of lines 91-92 and 233-234
limitsInForce == resolveLimits(positionLimits)

\* C1: the bucket totals of the recommendedAllocations analyze returns sum to
\* 1 within 0.001:
\*   |incomePie.total + shortTermTreasury.total + treasuryETF.total - 1| <= 0.001
C1_ReturnedTotalsSumToOne ==
    pc = "returned" =>
        RLeq(RAbs(RSub(RAdd(RAdd(returnedPlan.incomePie.total,
                                 returnedPlan.shortTermTreasury.total),
                            returnedPlan.treasuryETF.total),
                       One)),
             Rat(1, 1000))

\* C1 witness: analyze returned a plan that generateAdjustedAllocations
\* rebuilt and rescaled (its totals differ from those of calculateAllocations)
C1_Witness ==
    /\ pc = "returned"
    /\ returnedPlan.note = LimitsNote
    /\ returnedPlan.shortTermTreasury.total # allocations[1].shortTermTreasury.total

\* C2 (as claimed): in every plan generateAdjustedAllocations returns, each of
\* incomePie.total * FEPI, incomePie.total * SDTY, incomePie.total * QQQY is at
\* most the per-symbol cap maxSingleOptionETF in force
C2_SingleAllocationsWithinCap ==
    IsDefined(adjustedAllocations) =>
        LET plan == adjustedAllocations[1]
        IN  \A sym \in {"FEPI", "SDTY", "QQQY"} :
                RLeq(RMul(plan.incomePie.total, plan.incomePie[sym]),
                     limitsInForce.maxSingleOptionETF)

C5_NoExceptionWithoutRotationSignals ==
    (pc # "idle" /\ ~IsDefined(portfolioState.rotationSignals)) => pc # "threw"

\* the limits of the call with every field explicit: a configured field as
\* given (0 included), a missing one by 0.05, 0.25, 0.60
limitsAsGiven ==
    LET given(name, dflt) ==
            IF IsDefined(OptField(positionLimits, name))
            THEN OptField(positionLimits, name)[1] ELSE dflt
    IN  [maxSingleOptionETF |-> given("maxSingleOptionETF", Rat(5, 100)),
         maxCombinedOptionETFs |-> given("maxCombinedOptionETFs", Rat(25, 100)),
         idealIncomePieAllocation |-> given("idealIncomePieAllocation", Rat(60, 100))]

\* the same, with a configured 0 replaced by the default like a missing field
limitsNonZeroAsGiven ==
    LET given(name, dflt) ==
            IF IsDefined(OptField(positionLimits, name))
               /\ OptField(positionLimits, name)[1] # Zero
            THEN OptField(positionLimits, name)[1] ELSE dflt
    IN  [maxSingleOptionETF |-> given("maxSingleOptionETF", Rat(5, 100)),
         maxCombinedOptionETFs |-> given("maxCombinedOptionETFs", Rat(25, 100)),
         idealIncomePieAllocation |-> given("idealIncomePieAllocation", Rat(60, 100))]

\* the two plans of the call are those computed from the explicit limits lim
plansFollow(lim) ==
    /\ allocations[1] =
          calculateAllocationsWith(portfolioState.marketCondition.vix,
                                   actualAllocations, lim)
    /\ adjustedAllocations[1] = generateAdjustedAllocationsWith(allocations[1], lim)

afterAdjustment == IsDefined(adjustedAllocations)

\* C7 (as claimed): missing limits are replaced by 0.05, 0.25 and 0.60, and
\* configured limits that are present are used as given
C7_PresentLimitsUsedAsGiven == afterAdjustment => plansFollow(limitsAsGiven)

\* C7 (amended): missing limits and limits configured as 0 are replaced by
\* 0.05, 0.25 and 0.60; configured non-zero limits are used as given
C7_NonZeroLimitsUsedAsGiven == afterAdjustment => plansFollow(limitsNonZeroAsGiven)

\* C7 witness: a call with one limit missing, one configured as 0 and one
\* configured non-zero has computed both plans
C7_Witness ==
    /\ afterAdjustment
    /\ IsDefined(positionLimits)
    /\ positionLimits[1].maxSingleOptionETF = Undefined
    /\ positionLimits[1].maxCombinedOptionETFs = Some(Zero)
    /\ positionLimits[1].idealIncomePieAllocation = Some(Rat(20, 100))
    /\ actualAllocations.holdings = << >>

\* VIX levels the plan of the call is compared with
VixProbes == {15, 20, 21, 25, 26, 30, 31}
VixThresholds == {20, 25, 30}
oppositeSides(v, w, threshold) == (v > threshold) # (w > threshold)

\* the plan calculateAllocations returns at VIX level v for the holdings,
\* flags and limits of the call
planAtVix(v) == calculateAllocations(v, actualAllocations, positionLimits)

\* C8 (as claimed): calculateAllocations returns one of its four plans, and
\* VIX levels on opposite sides of any of the thresholds 20, 25, 30 yield
\* different plans
C8_ThreeThresholdsSelect ==
    IsDefined(allocations) =>
        /\ allocations[1] \in
              {highVixAllocations(limitsInForce), midVixAllocations(limitsInForce),
               adjustedAllocationsPreset(limitsInForce),
               baseAllocations(actualAllocations, limitsInForce)}
        /\ \A v \in VixProbes : \A t \in VixThresholds :
              oppositeSides(portfolioState.marketCondition.vix, v, t)
                  => planAtVix(v) # allocations[1]

\* C8 (amended): calculateAllocations returns one of its four plans; VIX
\* levels on opposite sides of 25 or of 30 yield different plans, and VIX
\* levels on the same side of both 25 and 30 yield the same plan (the
\* threshold 20 plays no part)
C8_TwoThresholdsSelect ==
    IsDefined(allocations) =>
        /\ allocations[1] \in
              {highVixAllocations(limitsInForce), midVixAllocations(limitsInForce),
               adjustedAllocationsPreset(limitsInForce),
               baseAllocations(actualAllocations, limitsInForce)}
        /\ \A v \in VixProbes :
              IF \E t \in {25, 30} :
                    oppositeSides(portfolioState.marketCondition.vix, v, t)
              THEN planAtVix(v) # allocations[1]
              ELSE planAtVix(v) = allocations[1]

\* C8 witness: a call at VIX 20 whose plan is also the plan at VIX 21 and
\* 25, across the threshold 20, and differs from the plans at 26 and 31
C8_Witness ==
    /\ IsDefined(allocations)
    /\ portfolioState.marketCondition.vix = 20
    /\ planAtVix(21) = allocations[1]
    /\ planAtVix(25) = allocations[1]
    /\ planAtVix(26) # allocations[1]
    /\ planAtVix(31) # planAtVix(26)

\* whether the plan of calculateAllocations exceeds a limit in force: some
\* single-symbol allocation above the cap, or the income pie above the
\* combined cap
exceedsSomeLimit ==
    LET plan == allocations[1]
    IN  \/ \E sym \in {"FEPI", "SDTY", "QQQY"} :
              RLess(limitsInForce.maxSingleOptionETF,
                    RMul(plan.incomePie.total, plan.incomePie[sym]))
        \/ RLess(limitsInForce.maxCombinedOptionETFs, plan.incomePie.total)

\* C10 (as claimed): an adjusted plan gives FEPI, SDTY and QQQY equal
\* sub-weights; when nothing exceeds a limit the input plan is returned
\* unchanged and without a note
C10_EqualSubWeights ==
    afterAdjustment =>
        LET plan == adjustedAllocations[1]
        IN  IF exceedsSomeLimit
            THEN /\ plan.incomePie.FEPI = plan.incomePie.SDTY
                 /\ plan.incomePie.SDTY = plan.incomePie.QQQY
            ELSE plan = allocations[1] /\ plan.note = ""

\* C10 (amended): an adjusted plan gives FEPI and SDTY the sub-weight 0.33
\* and QQQY 0.34 (equal up to 0.01), whatever the sub-weights of the input
\* plan, and carries the note; when nothing exceeds a limit the input plan is
\* returned unchanged and without a note
C10_NearEqualSubWeights ==
    afterAdjustment =>
        LET plan == adjustedAllocations[1]
        IN  IF exceedsSomeLimit
            THEN /\ plan.incomePie.FEPI = Rat(33, 100)
                 /\ plan.incomePie.SDTY = Rat(33, 100)
                 /\ plan.incomePie.QQQY = Rat(34, 100)
                 /\ plan.note = LimitsNote
            ELSE plan = allocations[1] /\ plan.note = ""

\* C10 witness: a plan with sub-weights 0.40, 0.35, 0.25 exceeded a limit and
\* was adjusted
C10_Witness ==
    /\ afterAdjustment
    /\ exceedsSomeLimit
    /\ allocations[1].incomePie.FEPI = Rat(40, 100)
    /\ adjustedAllocations[1].note = LimitsNote

\* the percentages of the summary analyze returned
returnedSummary == output[1].summary

\* C13: the three percentages the summary displays (Income Factory, Short-Term
\* Treasury, Treasury ETF) sum to exactly 100
C13_PercentagesSumTo100 ==
    pc = "returned" =>
        returnedSummary.incomePiePercent + returnedSummary.shortTermTreasuryPercent
            + returnedSummary.treasuryETFPercent = 100

\* C13 witness: analyze returned a summary for a plan whose three totals,
\* each rounded by itself, do not sum to 100
C13_Witness ==
    /\ pc = "returned"
    /\ roundedPercent(returnedPlan.incomePie.total)
          + roundedPercent(returnedPlan.shortTermTreasury.total)
          + roundedPercent(returnedPlan.treasuryETF.total) # 100
    /\ returnedSummary.treasuryETFPercent
          # roundedPercent(returnedPlan.treasuryETF.total)

\* C14 (as claimed): every plan generateAdjustedAllocations returns has
\* incomePie.total <= maxCombinedOptionETFs (the combined cap in force), at
\* every VIX level, for all holdings and limits
C14_AdjustedWithinCombinedCap ==
    afterAdjustment =>
        RLeq(adjustedAllocations[1].incomePie.total,
             limitsInForce.maxCombinedOptionETFs)

\* the VIX band of a level: 0 up to 25, 1 above 25 up to 30, 2 above 30
vixBand(v) == IF v > 30 THEN 2 ELSE IF v > 25 THEN 1 ELSE 0

\* the plan analyze recommends at VIX level v for the holdings, flags and
\* limits of the call
adjustedAtVix(v) == generateAdjustedAllocations(planAtVix(v), positionLimits)

\* C15 (as claimed): for the holdings, flags and limits of the call, the
\* income-pie total recommended at a VIX level of a higher band is never
\* larger than the one recommended at the level of the call
C15_HigherBandNoMoreIncome ==
    afterAdjustment =>
        \A v \in VixProbes :
            vixBand(v) > vixBand(portfolioState.marketCondition.vix)
                => RLeq(adjustedAtVix(v).incomePie.total,
                        adjustedAllocations[1].incomePie.total)

\* C21 (as claimed): in the summary analyze returns, the displayed Treasury
\* ETF percentage (100 minus the two other rounded percentages) is not
\* negative and differs from the rounded treasuryETF.total * 100 by at most 1
C21_TreasuryPercentNearRounded ==
    pc = "returned" =>
        /\ returnedSummary.treasuryETFPercent >= 0
        /\ Abs(returnedSummary.treasuryETFPercent
                  - roundedPercent(returnedPlan.treasuryETF.total)) <= 1

(***************************************************************************)
(* Properties of the strategy methods (specification SpecStrategy)         *)
(***************************************************************************)
\* C12: the confidence analyze returns lies in [0, 1]
C12_ConfidenceInUnitInterval ==
    pc = "returned" =>
        /\ RLeq(Zero, output[1].confidence)
        /\ RLeq(output[1].confidence, One)

\* C12 witness: analyze returned at a VIX level below 15 with a Sharpe ratio
\* above 1, where every adjustment raises the confidence, and the confidence
\* is the upper end 1
C12_Witness ==
    /\ pc = "returned"
    /\ portfolioState.marketCondition.vix < 15
    /\ RLess(One, portfolioState.metrics.sharpeRatio)
    /\ output[1].confidence = One

\* the result of a direct call of the method, when there is one
resultOf(method) == strategyResult[1].value
wasCalled(method) == IsDefined(strategyResult) /\ strategyResult[1].method = method

\* the rotation signals of the portfolio state, none when missing
signalsGiven ==
    IF IsDefined(portfolioState.rotationSignals)
    THEN portfolioState.rotationSignals[1] ELSE << >>

\* C19: generateStrategyRecommendations returns one recommendation per rotation
\* signal, in signal order (BUY for INCREASE, SELL for REDUCE, HOLD otherwise;
\* conviction 8 and short-term for urgency HIGH, else medium-term with
\* conviction 6 for MEDIUM and 4 otherwise); without signals it returns one
\* default: SELL short-term 7 if VIX > 25, else SELL medium-term 6 if the
\* Sharpe ratio is below -1, else HOLD 5; the list is never empty
C19_OnePerSignalOrOneDefault ==
    wasCalled("generateStrategyRecommendations") =>
        LET result == resultOf("generateStrategyRecommendations")
            vix == portfolioState.marketCondition.vix
            sharpe == portfolioState.metrics.sharpeRatio
        IN  /\ Len(result) >= 1
            /\ IF Len(signalsGiven) > 0
               THEN /\ Len(result) = Len(signalsGiven)
                    /\ \A i \in 1..Len(signalsGiven) :
                          LET s == signalsGiven[i]
                              r == result[i]
                          IN  /\ r.symbol = s.symbol
                              /\ r.action = (CASE s.type = "INCREASE" -> "BUY"
                                               [] s.type = "REDUCE" -> "SELL"
                                               [] OTHER -> "HOLD")
                              /\ r.conviction = (CASE s.urgency = "HIGH" -> 8
                                                   [] s.urgency = "MEDIUM" -> 6
                                                   [] OTHER -> 4)
                              /\ (r.timeframe = "short-term") = (s.urgency = "HIGH")
                              /\ r.timeframe \in {"short-term", "medium-term"}
               ELSE /\ Len(result) = 1
                    /\ result[1].action = (IF vix > 25 \/ sharpe.n < -sharpe.d
                                           THEN "SELL" ELSE "HOLD")
                    /\ result[1].timeframe = (IF vix > 25 THEN "short-term"
                                              ELSE "medium-term")
                    /\ result[1].conviction = (IF vix > 25 THEN 7
                                               ELSE IF sharpe.n < -sharpe.d THEN 6
                                               ELSE 5)

\* C19 witness: a call with two signals, a ROTATE of low urgency and then a
\* REDUCE of high urgency, returned two recommendations
C19_Witness ==
    /\ wasCalled("generateStrategyRecommendations")
    /\ Len(signalsGiven) = 2
    /\ signalsGiven[1].type = "ROTATE"
    /\ signalsGiven[2].urgency = "HIGH"
    /\ Len(resultOf("generateStrategyRecommendations")) = 2

\* some option ETF of the portfolio state has the field below the threshold
optionETFBelow(field, threshold) ==
    \E i \in 1..Len(portfolioState.holdings) :
        /\ portfolioState.holdings[i].symbol \in optionETFSymbols
        /\ portfolioState.holdings[i][field].n
              < threshold * portfolioState.holdings[i][field].d

\* one of the risk conditions of identifyStrategyRisks holds
someRiskCondition ==
    \/ portfolioState.marketCondition.vix > 25
    \/ portfolioState.metrics.sharpeRatio.n < 0
    \/ actualAllocations.limitExceeded.individualPositions
    \/ optionETFBelow("weeklyPerformance", -3)
    \/ optionETFBelow("navErosion", -5)
    \/ 10 * portfolioState.metrics.totalYield.n < portfolioState.metrics.totalYield.d

\* C20: identifyStrategyRisks returns at least one risk, and the fallback risk
\* is among them exactly when none of the risk conditions holds (VIX > 25,
\* Sharpe < 0, position limits exceeded, an option ETF with a weekly
\* performance below -3, an option ETF with a NAV erosion below -5, yield
\* below 0.1)
C20_FallbackIffNoCondition ==
    wasCalled("identifyStrategyRisks") =>
        LET result == resultOf("identifyStrategyRisks")
        IN  /\ Len(result) >= 1
            /\ (\E i \in 1..Len(result) : result[i] = FallbackRisk)
                  <=> ~someRiskCondition

\* C20 witness: a call for a portfolio whose only weak holding is a stock (no
\* option ETF) returned the fallback risk alone
C20_Witness ==
    /\ wasCalled("identifyStrategyRisks")
    /\ \E i \in 1..Len(portfolioState.holdings) :
          /\ portfolioState.holdings[i].symbol = "AAPL"
          /\ portfolioState.holdings[i].weeklyPerformance = Rat(-4, 1)
    /\ resultOf("identifyStrategyRisks") = <<FallbackRisk>>

(***************************************************************************)
(* Properties of normalizeAllocations (specification SpecNorm)             *)
(***************************************************************************)
\* the value of the plan object after call i (1 <= i <= number of calls)
afterCall(i) ==
    IF i < Len(norm[1].before) THEN norm[1].before[i + 1] ELSE norm[1].allocations

planSum(p) ==
    RAdd(RAdd(p.incomePie.total, p.shortTermTreasury.total), p.treasuryETF.total)

subWeights(p) ==
    <<p.incomePie.FEPI, p.incomePie.SDTY, p.incomePie.QQQY,
      p.shortTermTreasury.SHY, p.treasuryETF.EDV, p.note>>

bucketTotals(p) ==
    <<p.incomePie.total, p.shortTermTreasury.total, p.treasuryETF.total>>

\* q is p with the three totals divided by sum(p): the sum of q is 1 and the
\* pairwise ratios of the totals are those of p
scaledBySum(p, q) ==
    /\ \A i \in 1..3 : RMul(bucketTotals(q)[i], planSum(p)) = bucketTotals(p)[i]
    /\ planSum(q) = One
    /\ \A i, j \in 1..3 :
          RMul(bucketTotals(q)[i], bucketTotals(p)[j])
             = RMul(bucketTotals(q)[j], bucketTotals(p)[i])

\* C9: normalizeAllocations divides the three totals by their sum exactly when
\* the sum differs from 1 by more than 0.001 and otherwise leaves them
\* unchanged; the sub-weights are unchanged; a second call changes nothing
C9_NormalizeScalesOnce ==
    (IsDefined(norm) /\ Len(norm[1].before) >= 1) =>
        LET p == norm[1].before[1]
            q == afterCall(1)
            off == RAbs(RSub(planSum(p), One))
        IN  /\ IF RLess(Rat(1, 1000), off)
               THEN scaledBySum(p, q)
               ELSE bucketTotals(q) = bucketTotals(p)
            /\ subWeights(q) = subWeights(p)
            /\ \A i \in 2..Len(norm[1].before) : afterCall(i) = q

\* C9 witness: two calls on a plan whose totals summed to something other
\* than 1: the first scaled them, the second left them alone
C9_Witness ==
    /\ IsDefined(norm)
    /\ Len(norm[1].before) = 2
    /\ bucketTotals(norm[1].before[1]) # bucketTotals(norm[1].before[2])
    /\ norm[1].before[1].treasuryETF.total # Zero
    /\ norm[1].allocations = norm[1].before[2]

(***************************************************************************)
(* Properties of generateReport (specification SpecReport)                 *)
(***************************************************************************)
ActionIndex == [a \in {"BUY", "SELL", "HOLD"} |->
                    IF a = "BUY" THEN 1 ELSE IF a = "SELL" THEN 2 ELSE 3]

\* the conviction-weighted share of action a among list, times the total
\* conviction of list (the shares of one list have the same denominator)
shareTimesTotal(list, a) == convictionOf(list, {a})

\* the action selected for list has the greatest share
hasGreatestShare(list, selected) ==
    \A a \in {"BUY", "SELL", "HOLD"} :
        shareTimesTotal(list, a) <= shareTimesTotal(list, selected)

\* the two (list, result) pairs of the call
recommendationPairs ==
    {<<recs[1].shortTerm, finalRecs[1].shortTerm>>,
     <<recs[1].longTerm, finalRecs[1].longTerm>>}

\* C4 (as claimed): the selected action has the greatest conviction-weighted
\* share, and of several actions with the greatest share the first in the
\* order BUY, SELL, HOLD is selected
C4_TieSelectsFirst ==
    IsDefined(finalRecs) =>
        \A pair \in recommendationPairs :
            /\ hasGreatestShare(pair[1], pair[2].action)
            /\ \A a \in {"BUY", "SELL", "HOLD"} :
                  shareTimesTotal(pair[1], a) = shareTimesTotal(pair[1], pair[2].action)
                      => ActionIndex[pair[2].action] <= ActionIndex[a]

\* C4 (amended): the selected action has the greatest conviction-weighted
\* share, and of several actions with the greatest share the last in the
\* order BUY, SELL, HOLD is selected (HOLD when the list is empty)
C4_TieSelectsLast ==
    IsDefined(finalRecs) =>
        \A pair \in recommendationPairs :
            /\ hasGreatestShare(pair[1], pair[2].action)
            /\ \A a \in {"BUY", "SELL", "HOLD"} :
                  shareTimesTotal(pair[1], a) = shareTimesTotal(pair[1], pair[2].action)
                      => ActionIndex[pair[2].action] >= ActionIndex[a]

\* C4 witness: the short-term recommendations are two BUY of conviction 3 and
\* one SELL of conviction 6, equal shares, and SELL is selected
C4_Witness ==
    /\ IsDefined(finalRecs)
    /\ Len(recs[1].shortTerm) = 3
    /\ convictionOf(recs[1].shortTerm, {"BUY"}) = 6
    /\ countOf(recs[1].shortTerm, "BUY") = 2
    /\ convictionOf(recs[1].shortTerm, {"SELL"}) = 6
    /\ finalRecs[1].shortTerm.action = "SELL"

\* C6 (as claimed): generateReport raises no exception, also when upstream
\* recommendations lists are empty
C6_NoExceptionInGenerateReport == rpc # "threw"

(***************************************************************************)
(* Properties of generateReport on macro metrics (SpecReportMetrics)       *)
(***************************************************************************)
\* C11 (as claimed): generateReport modifies none of its arguments: the
\* analyses and the metrics of the macro analysis, the bucket totals of
\* recommendedAllocations among them, are after the call what they were
\* before it
C11_ArgumentsUnchanged ==
    [][macroMetrics' = macroMetrics /\ analyses' = analyses]_vars

\* the number of specific actions that apply: VIX above 25, a rotation signal
\* of a type with a sentence, position limits exceeded, combined limit
\* exceeded
specificActionCount ==
    LET given == IF IsDefined(macroMetrics.rotationSignals)
                 THEN macroMetrics.rotationSignals[1] ELSE << >>
        applies ==
            [k \in 1..4 |->
                CASE k = 1 -> IsDefined(macroMetrics.vixLevel)
                                 /\ macroMetrics.vixLevel[1] > 25
                  [] k = 2 -> \E j \in 1..Len(given) :
                                 given[j].type \in {"INCREASE", "REDUCE", "ROTATE"}
                  [] k = 3 -> macroMetrics.exceedsPositionLimits
                  [] k = 4 -> macroMetrics.exceedsCombinedLimits]
    IN  Cardinality({k \in 1..4 : applies[k]})

\* C17 (as claimed): the action plan lists at least 3 and at most 4 actions,
\* and lists general advice only when fewer than 3 specific actions apply
C17_ThreeToFourActions ==
    IsDefined(report) =>
        LET actions == report[1].priorityActions
        IN  /\ Len(actions) >= 3
            /\ Len(actions) <= 4
            /\ (\E i \in 1..Len(actions) :
                    actions[i] \in {MonitorYieldCurveAction, ReviewDistributionsAction})
                  => specificActionCount < 3

(***************************************************************************)
(* Properties of generateReport on confidences and risks (SpecReportScores)*)
(***************************************************************************)
\* the confidence of an analysis of the call
confidenceOf(a) == analyses[a].confidence

risksByPriority ==
    analyses["macro"].risks \o analyses["technical"].risks
        \o analyses["fundamental"].risks \o analyses["sentiment"].risks

\* C18: the risk snapshot lists at most 3 risks, the first of the risks in the
\* priority order macro, technical, fundamental, sentiment (each source in its
\* own order); a non-macro risk is listed only when there are fewer than 3
\* macro risks
C18_TopThreeByPriority ==
    IsDefined(report) =>
        LET listed == report[1].allRisks
        IN  /\ Len(listed) <= 3
            /\ Len(listed) = (IF Len(risksByPriority) < 3
                              THEN Len(risksByPriority) ELSE 3)
            /\ \A i \in 1..Len(listed) : listed[i] = risksByPriority[i]
            /\ (\E i \in 1..Len(listed) :
                    \A j \in 1..Len(analyses["macro"].risks) :
                        listed[i] # analyses["macro"].risks[j])
                  => Len(analyses["macro"].risks) < 3

\* C18 witness: with 2 macro, 2 technical and 1 fundamental risk the snapshot
\* lists the two macro risks and the first technical one
C18_Witness ==
    /\ IsDefined(report)
    /\ Len(analyses["macro"].risks) = 2
    /\ Len(analyses["technical"].risks) = 2
    /\ Len(analyses["fundamental"].risks) = 1
    /\ report[1].allRisks = <<"macro risk 1", "macro risk 2", "technical risk 1">>

(***************************************************************************)
(* Properties of App.handleSearch (specification SpecSearch)               *)
(***************************************************************************)
\* the stored stockData, indicators and news
storedData ==
    [stockData |-> app[1].stockData, indicators |-> app[1].indicators,
     news |-> app[1].news]

\* the data the search in progress (or the last one) stores when its fetches
\* succeed
fetchedData ==
    [stockData |-> search[1].number, indicators |-> search[1].number,
     news |-> search[1].number]

\* C22: in a search, a failure of fetchDividendData sets no error message and
\* generateAnalysis is invoked after it; a failure of generateAnalysis sets
\* the error message and leaves the stockData, indicators and news the search
\* stored in place; a failure of fetchStockData or fetchNews sets the error
\* message, neither fetchDividendData nor generateAnalysis is invoked, and the
\* stored stockData, indicators and news are those from before the search
C22_FailuresContained ==
    LET a == app[1]
        s == search[1]
    IN  /\ "fetchDividendData" \in s.failed =>
              /\ "generateAnalysis" \in s.invoked
              /\ "generateAnalysis" \notin s.failed => a.error = ""
        /\ "generateAnalysis" \in s.failed =>
              /\ a.error \in {ServiceMessage["generateAnalysis"], AnalysisDefaultMessage}
              /\ storedData = fetchedData
        /\ s.failed \cap {"fetchStockData", "fetchNews"} # {} =>
              /\ a.error \in {ServiceMessage["fetchStockData"],
                              ServiceMessage["fetchNews"], FetchingDefaultMessage}
              /\ s.invoked \cap {"fetchDividendData", "generateAnalysis"} = {}
              /\ storedData = s.before

\* C22 witness: the second search, after a first one that stored its data,
\* has stored its own data, fetchDividendData and then generateAnalysis have
\* failed, and the error message is that of generateAnalysis
C22_Witness ==
    /\ search[1].number = 2
    /\ search[1].pc = "idle"
    /\ search[1].before = [stockData |-> 1, indicators |-> 1, news |-> 1]
    /\ search[1].failed = {"fetchDividendData", "generateAnalysis"}
    /\ storedData = fetchedData
    /\ app[1].dividendData = 0
    /\ app[1].error = ServiceMessage["generateAnalysis"]

=============================================================================
